---- MODULE Spec2Model ----
(***************************************************************************)
(* One run of etl.py: module start-up (lines 10-15), main (160-166),       *)
(* process_song_data (29-73) and process_log_data (76-157), one action per *)
(* statement that touches the engine, with the run-time meaning Python and *)
(* Spark give it.                                                          *)
(*                                                                         *)
(* etl.py as committed does not compile: the statement on line 132 lacks   *)
(* its closing parenthesis.  The model follows the statements in program   *)
(* order with their run-time meaning; the first statement of               *)
(* process_log_data that cannot be executed is line 118, which reads the   *)
(* name user_cols that no statement binds (line 116 binds users_cols), so  *)
(* the run ends there with a NameError and lines 121-157 are never run.    *)
(* A DataFrame is modelled by the sequence of rows it denotes; a nullable  *)
(* column value is <<>> (null) or <<v>>.                                   *)
(***************************************************************************)
EXTENDS Integers, Sequences, FiniteSets, TLC

VARIABLES pc, err, failed_at, trace, song_files, log_files, partial_results,
          song_df, log_df, views, out

vars == <<pc, err, failed_at, trace, song_files, log_files, partial_results,
          song_df, log_df, views, out>>

\* Bounds of the model: the longest song input and log input enumerated.
MaxSongRecords == 2
MaxLogRecords == 2

\* A JSON integer is written <<k, u>> for k * 1000 + u with 0 <= u < 1000, so
\* that epoch milliseconds can be written down.
Num(k, u) == << k, u >>
N(n) == << n \div 1000, n % 1000 >>
Value(n) == n[1] * 1000 + n[2]
Leq(a, b) == a[1] < b[1] \/ (a[1] = b[1] /\ a[2] <= b[2])

\* IntegerType is a 32-bit signed integer (lines 41, 50, 92, 103):
\* -2147483648 .. 2147483647.
Int32Min == Num(-2147484, 352)
Int32Max == Num(2147483, 647)

Null == << >>
Some(v) == << v >>

----------------------------------------------------------------------------
\* Raw JSON records of the inputs.

SongJson(sid, title, aid, year) ==
    [num_songs |-> N(1), artist_id |-> aid, artist_latitude |-> 35,
     artist_longitude |-> -90, artist_location |-> "X",
     artist_name |-> "Test Artist", song_id |-> sid, title |-> title,
     duration |-> 200, year |-> year]

SongRecords ==
    { SongJson("S1", "Test Song", "A1", N(2000)),
      SongJson("S2", "Test Song", "A1", N(2000)),
      SongJson("S3", "Other Song", "A2", Num(3000000, 0)) }

LogJson(song, page, ts, level) ==
    [artist |-> "Test Artist", auth |-> "Logged In", firstName |-> "F",
     gender |-> "M", itemInSession |-> N(0), lastName |-> "L", length |-> 200,
     level |-> level, location |-> "X", method |-> "PUT", page |-> page,
     registration |-> N(1), sessionId |-> N(1), song |-> song,
     status |-> N(200),
     ts |-> ts, userAgent |-> "Y", userId |-> "1"]

LogRecords ==
    { LogJson("Test Song", "NextSong", Num(1000000000, 0), "free"),
      LogJson("Test Song", "NextSong", N(1000), "free"),
      LogJson("Test Song", "NextSong", N(1000), "paid"),
      LogJson("test song", "NextSong", N(2000), "free"),
      LogJson("Test Song", "Login", N(1000), "free") }

SeqsUpTo(S, n) == UNION { [1..k -> S] : k \in 0..n }

\* An input location: the glob matches no file, or the records of its files.
Inputs(S, n) ==
    { [exists |-> FALSE, records |-> << >>] }
      \cup { [exists |-> TRUE, records |-> s] : s \in SeqsUpTo(S, n) }

----------------------------------------------------------------------------
\* DataFrame operations.

FitsInt32(n) == Leq(Int32Min, n) /\ Leq(n, Int32Max)

RECURSIVE DropDuplicates(_)
DropDuplicates(s) ==
    IF s = << >> THEN << >>
    ELSE LET init == DropDuplicates(SubSeq(s, 1, Len(s) - 1))
             last == s[Len(s)]
         IN  IF \E i \in 1..Len(init) : init[i] = last
             THEN init ELSE Append(init, last)

SongFields ==
    {"num_songs", "artist_id", "artist_latitude", "artist_longitude",
     "artist_location", "artist_name", "song_id", "title", "duration", "year"}

SongIntFields == {"num_songs", "year"}

LogFields ==
    {"artist", "auth", "firstName", "gender", "itemInSession", "lastName",
     "length", "level", "location", "method", "page", "registration",
     "sessionId", "song", "status", "ts", "userAgent", "userId"}

LogIntFields == {"itemInSession", "ts"}

\* Numbers read into a StringType column come out as their text.
LogNumbersAsText == {"registration", "sessionId", "status"}

\* One JSON record read through an explicit schema in PERMISSIVE mode: an
\* integer that does not fit IntegerType makes the record malformed; the
\* engine then nulls the whole row or, with partial results, that field.
ParseRecord(j, fields, intFields, asText, partial) ==
    LET bad == { f \in intFields : ~FitsInt32(j[f]) }
        conv(f) == IF f \in asText THEN Some(ToString(Value(j[f])))
                   ELSE IF f \in intFields THEN Some(Value(j[f]))
                   ELSE Some(j[f])
    IN  [f \in fields |->
            IF bad = {} THEN conv(f)
            ELSE IF partial /\ f \notin bad THEN conv(f) ELSE Null]

ReadSongJson(records, partial) ==
    [i \in 1..Len(records) |->
        ParseRecord(records[i], SongFields, SongIntFields, {}, partial)]

ReadLogJson(records, partial) ==
    [i \in 1..Len(records) |->
        ParseRecord(records[i], LogFields, LogIntFields, LogNumbersAsText, partial)]

SongsRow(r) ==
    [song_id |-> r.song_id, title |-> r.title, artist_id |-> r.artist_id,
     year |-> r.year, duration |-> r.duration]

ArtistsRow(r) ==
    [artist_id |-> r.artist_id, name |-> r.artist_name,
     location |-> r.artist_location, latitude |-> r.artist_latitude,
     longitude |-> r.artist_longitude]

\* select keeps every row: a projection may repeat rows.
songs_table(df) == [i \in 1..Len(df) |-> SongsRow(df[i])]

artists_table(df) == [i \in 1..Len(df) |-> ArtistsRow(df[i])]

NextSongFilter(df) == SelectSeq(df, LAMBDA r : r.page = Some("NextSong"))

----------------------------------------------------------------------------
\* Control.

ProgramOrder ==
    << "config", "session", "paths", "song_load", "songs_write",
       "artists_write", "publish", "log_load", "filter", "users_select" >>

Succ(p) ==
    LET i == CHOOSE k \in 1..Len(ProgramOrder) : ProgramOrder[k] = p
    IN  IF i < Len(ProgramOrder) THEN ProgramOrder[i + 1] ELSE "done"

Step(p) == pc = p /\ pc' = Succ(p) /\ trace' = Append(trace, p)

RaiseSwallowed(p, exc) ==
    /\ pc' = Succ(p)
    /\ err' = exc
    /\ failed_at' = p
    /\ trace' = Append(trace, p)
    /\ UNCHANGED <<song_files, log_files, partial_results, song_df, log_df,
                   views, out>>

\* No statement of the file catches an exception: one raised anywhere ends
\* the run.
Raise(p, exc) ==
    /\ pc' = "aborted"
    /\ err' = exc
    /\ failed_at' = p
    /\ trace' = Append(trace, p)
    /\ UNCHANGED <<song_files, log_files, partial_results, song_df, log_df,
                   views, out>>

PublishedProjection(df) == songs_table(df)

\* The frame process_song_data registers as the view song_data_df.
PublishedFrame(df) == df

Init ==
    /\ pc = "config"
    /\ err = "none"
    /\ failed_at = "none"
    /\ trace = << >>
    /\ song_files \in Inputs(SongRecords, MaxSongRecords)
    /\ log_files \in Inputs(LogRecords, MaxLogRecords)
    /\ partial_results \in BOOLEAN
    /\ song_df = << >>
    /\ log_df = << >>
    /\ views = << >>
    /\ out = << >>

\* Reading a section or key the configuration lacks is a KeyError.
ReadKeys(p) ==
    /\ pc = p
    /\ \E ok \in BOOLEAN :
          IF ok
          THEN /\ Step(p)
               /\ UNCHANGED <<err, failed_at, song_files, log_files,
                              partial_results, song_df, log_df, views, out>>
          ELSE Raise(p, "KeyError")

\* Lines 10-15: the AWS keys, read when the module starts.
LoadConfig == ReadKeys("config")

\* Lines 162-163: the input and output locations, read in main.
ReadPaths == ReadKeys("paths")

create_spark_session ==
    /\ Step("session")
    /\ UNCHANGED <<err, failed_at, song_files, log_files, partial_results,
                   song_df, log_df, views, out>>

\* Line 54: the path is resolved when the reader is built.
SongLoad ==
    /\ pc = "song_load"
    /\ IF song_files.exists
       THEN /\ Step("song_load")
            /\ song_df' = DropDuplicates(ReadSongJson(song_files.records, partial_results))
            /\ UNCHANGED <<err, failed_at, song_files, log_files,
                           partial_results, log_df, views, out>>
       ELSE Raise("song_load", "AnalysisException")

Write(p, table, rows) ==
    /\ pc = p
    /\ \E ok \in BOOLEAN :
          IF ok
          THEN /\ Step(p)
               /\ out' = (table :> rows) @@ out
               /\ UNCHANGED <<err, failed_at, song_files, log_files,
                              partial_results, song_df, log_df, views>>
          ELSE Raise(p, "WriteError")

SongsWrite == Write("songs_write", "songs", songs_table(song_df))

ArtistsWrite == Write("artists_write", "artists", artists_table(song_df))

PublishView ==
    /\ Step("publish")
    /\ views' = ("song_data_df" :> PublishedFrame(song_df)) @@ views
    /\ UNCHANGED <<err, failed_at, song_files, log_files, partial_results,
                   song_df, log_df, out>>

LogLoad ==
    /\ pc = "log_load"
    /\ IF log_files.exists
       THEN /\ Step("log_load")
            /\ log_df' = DropDuplicates(ReadLogJson(log_files.records, partial_results))
            /\ UNCHANGED <<err, failed_at, song_files, log_files,
                           partial_results, song_df, views, out>>
       ELSE Raise("log_load", "AnalysisException")

LogFilter ==
    /\ Step("filter")
    /\ log_df' = NextSongFilter(log_df)
    /\ UNCHANGED <<err, failed_at, song_files, log_files, partial_results,
                   song_df, views, out>>

\* Line 118 reads user_cols, which is bound nowhere (line 116 binds
\* users_cols): NameError, before users_table exists.
UsersSelect ==
    /\ pc = "users_select"
    /\ Raise("users_select", "NameError")

Next ==
    \/ LoadConfig
    \/ create_spark_session
    \/ ReadPaths
    \/ SongLoad
    \/ SongsWrite
    \/ ArtistsWrite
    \/ PublishView
    \/ LogLoad
    \/ LogFilter
    \/ UsersSelect

Spec == Init /\ [][Next]_vars

----------------------------------------------------------------------------
\* What the claims speak of.

RunEnded == pc \in {"done", "aborted"}

\* Nothing outside the program failed: configuration, input locations and
\* writes were all in order.
NoExternalFailure == err \notin {"KeyError", "AnalysisException", "WriteError"}

Table(t) == IF t \in DOMAIN out THEN out[t] ELSE << >>

\* The filtered log dataset of a run that got past line 113.
FilterDone == "filter" \in { trace[i] : i \in 1..Len(trace) }

\* A songplays row that carries the log row r (line 152's columns taken
\* from the log side).
Carries(p, r) ==
    /\ p.user_id = r.userId
    /\ p.level = r.level
    /\ p.session_id = r.sessionId
    /\ p.location = r.location
    /\ p.user_agent = r.userAgent

Matches(r, s) == r.song = s.title /\ r.artist = s.artist_name /\ r.song # Null /\ r.artist # Null

PublishedSongs == IF "song_data_df" \in DOMAIN views THEN views["song_data_df"] ELSE << >>

HasMatch(r) == \E k \in 1..Len(PublishedSongs) : Matches(r, PublishedSongs[k])

\* C1: when a run has ended with nothing outside the program failing, every
\* row of the filtered log dataset appears exactly once in the songplays
\* output.
C1_EveryPlayOnce ==
    (RunEnded /\ NoExternalFailure /\ FilterDone) =>
        \A i \in 1..Len(log_df) :
            Cardinality({ k \in 1..Len(Table("songplays")) :
                            Carries(Table("songplays")[k], log_df[i]) }) = 1

\* C2: when a run has ended with nothing outside the program failing, a
\* filtered log row whose (song, artist) equals the (title, artist_name) of
\* no published song row still has a songplays row, with null song_id and
\* null artist_id; and a songplays row with a song_id or an artist_id
\* carries a log row that matches a song row.
C2_UnmatchedKeptWithNulls ==
    (RunEnded /\ NoExternalFailure /\ FilterDone) =>
        /\ \A i \in 1..Len(log_df) :
              ~HasMatch(log_df[i]) =>
                 \E k \in 1..Len(Table("songplays")) :
                    /\ Carries(Table("songplays")[k], log_df[i])
                    /\ Table("songplays")[k].song_id = Null
                    /\ Table("songplays")[k].artist_id = Null
        /\ \A k \in 1..Len(Table("songplays")) :
              (Table("songplays")[k].song_id # Null \/ Table("songplays")[k].artist_id # Null) =>
                 \E i \in 1..Len(log_df) :
                    Carries(Table("songplays")[k], log_df[i]) /\ HasMatch(log_df[i])

\* C6: end to end, the one song record S1 and the one log record of the
\* scenario (ts 1000000000000) give exactly one songplays row, with song_id
\* S1, artist_id A1, a start_time and songplay_id 0.
C6_EndToEnd ==
    ( /\ RunEnded /\ NoExternalFailure
      /\ song_files.records = << SongJson("S1", "Test Song", "A1", N(2000)) >>
      /\ log_files.records =
            << LogJson("Test Song", "NextSong", Num(1000000000, 0), "free") >> )
    => /\ Len(Table("songplays")) = 1
       /\ Table("songplays")[1].song_id = Some("S1")
       /\ Table("songplays")[1].artist_id = Some("A1")
       /\ Table("songplays")[1].start_time # Null
       /\ Table("songplays")[1].songplay_id = Some(0)

UsersRow(r) ==
    [user_id |-> r.userId, first_name |-> r.firstName, last_name |-> r.lastName,
     gender |-> r.gender, level |-> r.level]

\* C9: when a run has ended with nothing outside the program failing, the
\* users table holds each distinct (user_id, first_name, last_name, gender,
\* level) of the filtered log dataset exactly once, so a user_id seen with
\* two levels is there twice.
C9_UsersDistinctFullRows ==
    (RunEnded /\ NoExternalFailure /\ FilterDone) =>
        \A i \in 1..Len(log_df) :
            Cardinality({ k \in 1..Len(Table("users")) :
                            Table("users")[k] = UsersRow(log_df[i]) }) = 1

Rank(step) ==
    IF step \in {"config", "session", "paths"} THEN 0
    ELSE IF step \in {"song_load", "songs_write", "artists_write", "publish"} THEN 1
    ELSE 2

WrittenBefore(step) ==
    IF step \in {"config", "session", "paths", "song_load", "songs_write"} THEN {}
    ELSE IF step = "artists_write" THEN {"songs"}
    ELSE {"songs", "artists"}

\* C8: a failure ends the run at the failing step: the run is aborted, the
\* failing step is the last one taken, only the tables of earlier steps are
\* written; and with the song input path missing the run is aborted at the
\* song load with no table written.
C8_FailureAbortsRun ==
    /\ failed_at # "none" =>
          /\ pc = "aborted"
          /\ trace[Len(trace)] = failed_at
          /\ DOMAIN out = WrittenBefore(failed_at)
    /\ (~song_files.exists /\ pc \notin {"config", "session", "paths", "song_load"}) =>
          /\ pc = "aborted"
          /\ DOMAIN out = {}
    /\ pc = "aborted" => failed_at # "none" /\ ~ENABLED Next

\* The write of artists failed after songs was written, and the run stopped.
C8_Witness ==
    /\ pc = "aborted"
    /\ failed_at = "artists_write"
    /\ DOMAIN out = {"songs"}
    /\ Len(out["songs"]) > 0

====
